---------------------------- MODULE Spec2Model ----------------------------
(***************************************************************************)
(* The type registry of opencog/atoms/base/ClassServer.cc: the name table, *)
(* the direct-parent matrix (inheritanceMap), the ancestor matrix          *)
(* (recursiveMap), addType with its closure propagation                    *)
(* (setParentRecursively), the type-added signal and the queries.          *)
(*                                                                         *)
(* Spec      one caller: every operation is one step (a whole call).       *)
(* SpecConc  several threads: addType is cut at its lock operations and at *)
(*           each statement of its critical section; the queries that take *)
(*           type_mutex are one step each, getNumberOfClasses reads nTypes *)
(*           without the mutex.                                            *)
(*                                                                         *)
(* A std::vector is a function on 0..size-1.  An out-of-range matrix index *)
(* and an unbounded recursion are undefined behaviour; the model records   *)
(* them in `fault` and stops the process there.                            *)
(***************************************************************************)
EXTENDS Integers, Sequences, FiniteSets, TLC

\* ------------------------------------------------------------- bounds
\* Distinct type names the callers use (names are 1..MaxNames).
MaxNames == 3

\* Threads of SpecConc.
NumThreads == 2

\* addType calls started in one behaviour of SpecConc.
MaxCalls == 2

\* Built-in types the constructor registers (SpecLife).
NumBuiltins == 2

\* ---------------------------------------------------------- constants
\* sizeof(Type): Type is an unsigned short.
TypeBytes == 2

TypeModulus == 2 ^ (8 * TypeBytes)

\* The "no such type" code, (Type) -1.
NOTYPE == TypeModulus - 1

\* getTypeName's nullString, "*** Unknown Type! ***".
nullString == 0

Names == 1 .. MaxNames

Threads == 1 .. NumThreads

\* The codes a caller passes as parent: every code the bounds let exist,
\* and NOTYPE.
ParentArgs == (0 .. (MaxNames - 1)) \cup {NOTYPE}

NoThread == 0

VARIABLES
    nTypes,          \* ClassServer::nTypes
    inheritanceMap,  \* inheritanceMap[parent][type]
    recursiveMap,    \* recursiveMap[ancestor][type]
    name2CodeMap,    \* name -> code
    code2NameMap,    \* code -> name (the pointer to name2CodeMap's key)
    fault,           \* "none", "oob" (index out of range), "overflow"
    type_mutex,      \* NoThread, or the thread that holds it
    pc,              \* per thread: its place in addType
    arg,             \* per thread: [parent, name] of its addType call
    typ,             \* per thread: addType's local `type`
    calls,           \* addType calls started (SpecConc)
    committed,       \* history: [name, type] of each new type, in commit order
    delivered,       \* history: [by, type] of each signal emission, in order
    ret,             \* the last returned operation, [op, ..., val]
    snap,            \* history: the registry when type_mutex was last free
    instance,        \* classserver()'s static: "none", "constructing", "ready"
    created,         \* ClassServer objects the factory has made
    handle           \* per thread: the instance classserver() returned, 0: none

vars == << nTypes, inheritanceMap, recursiveMap, name2CodeMap, code2NameMap,
           fault, type_mutex, pc, arg, typ, calls, committed, delivered,
           ret, snap, instance, created, handle >>

lifeVars == << instance, created, handle >>

\* ------------------------------------------------------------ vectors
Size(v) == Cardinality(DOMAIN v)

EmptyVec == [i \in {} |-> FALSE]

\* std::vector::assign(n, fill): the old elements are lost.
Assign(v, n, fill) == [i \in 0 .. (n - 1) |-> fill]

\* std::vector::resize(n, fill)
Resize(v, n, fill) == [i \in 0 .. (n - 1) |-> IF i \in DOMAIN v THEN v[i] ELSE fill]

\* m[a][b] = true
SetEntry(m, a, b) == [m EXCEPT ![a] = [@ EXCEPT ![b] = TRUE]]

\* m[a][b] is inside the matrix
InRange(m, a, b) == a \in DOMAIN m /\ b \in DOMAIN m[a]

\* The registry as one value.
Registry == [nTypes |-> nTypes, inheritanceMap |-> inheritanceMap,
             recursiveMap |-> recursiveMap, name2CodeMap |-> name2CodeMap,
             code2NameMap |-> code2NameMap, fault |-> fault]

SetRegistry(cs) ==
    /\ nTypes' = cs.nTypes
    /\ inheritanceMap' = cs.inheritanceMap
    /\ recursiveMap' = cs.recursiveMap
    /\ name2CodeMap' = cs.name2CodeMap
    /\ code2NameMap' = cs.code2NameMap
    /\ fault' = cs.fault

\* ------------------------------------------------------------ queries
getNumberOfClasses(cs) == cs.nTypes

isA_non_recursive(cs, type, parent) ==
    IF type >= cs.nTypes \/ parent >= cs.nTypes THEN FALSE
    ELSE cs.inheritanceMap[parent][type]

isDefined(cs, typeName) == typeName \in DOMAIN cs.name2CodeMap

\* getType that finds no name.
getTypeNotFound(cs, typeName) == NOTYPE

\* A lookup by name2CodeMap[typeName], which gives an absent name the
\* value-initialized code 0.
getTypeByIndex(cs, typeName) ==
    IF typeName \notin DOMAIN cs.name2CodeMap THEN 0
    ELSE cs.name2CodeMap[typeName]

getType(cs, typeName) ==
    IF typeName \notin DOMAIN cs.name2CodeMap THEN NOTYPE
    ELSE cs.name2CodeMap[typeName]

getTypeName(cs, type) ==
    IF type \in DOMAIN cs.code2NameMap THEN cs.code2NameMap[type]
    ELSE nullString

\* ------------------------------------------------ closure propagation
RECURSIVE setParentRecursively(_, _, _, _, _)
RECURSIVE setParentLoop(_, _, _, _, _, _)

\* setParentRecursively(parent, type) on matrix m with n = nTypes.  `stack`
\* holds the parents of the calls that are still running: a call whose
\* parent is among them repeats the call it is nested in, and the recursion
\* never ends (the matrix only gains entries).
setParentRecursively(m, n, parent, type, stack) ==
    IF parent \in stack THEN [map |-> m, overflow |-> TRUE]
    ELSE setParentLoop(SetEntry(m, parent, type), n, parent, type, 0,
                       stack \cup {parent})

\* The for loop scanning the row of parent (recursiveMap[parent][i]): it
\* recurses into the descendants of parent.
setParentLoopDown(m, n, parent, type, i, stack) ==
    IF i >= n THEN [map |-> m, overflow |-> FALSE]
    ELSE IF m[parent][i] /\ i # parent
         THEN LET r == setParentRecursively(m, n, i, type, stack)
              IN  IF r.overflow THEN r
                  ELSE setParentLoop(r.map, n, parent, type, i + 1, stack)
         ELSE setParentLoop(m, n, parent, type, i + 1, stack)

\* The for loop without the test i != parent.
setParentLoopAnyRow(m, n, parent, type, i, stack) ==
    IF i >= n THEN [map |-> m, overflow |-> FALSE]
    ELSE IF m[i][parent]
         THEN LET r == setParentRecursively(m, n, i, type, stack)
              IN  IF r.overflow THEN r
                  ELSE setParentLoop(r.map, n, parent, type, i + 1, stack)
         ELSE setParentLoop(m, n, parent, type, i + 1, stack)

\* The for loop of setParentRecursively, from index i on.
setParentLoop(m, n, parent, type, i, stack) ==
    IF i >= n THEN [map |-> m, overflow |-> FALSE]
    ELSE IF m[i][parent] /\ i # parent
         THEN LET r == setParentRecursively(m, n, i, type, stack)
              IN  IF r.overflow THEN r
                  ELSE setParentLoop(r.map, n, parent, type, i + 1, stack)
         ELSE setParentLoop(m, n, parent, type, i + 1, stack)

\* ------------------------------------------- the statements of addType
\* A code taken without counting it.
AllocCodeNoCount(cs) == cs

\* type = nTypes++
AllocCode(cs) == [cs EXCEPT !.nTypes = (cs.nTypes + 1) % TypeModulus]

\* inheritanceMap.resize(nTypes); recursiveMap.resize(nTypes)
ResizeOuter(cs) ==
    [cs EXCEPT !.inheritanceMap = Resize(@, cs.nTypes, EmptyVec),
               !.recursiveMap = Resize(@, cs.nTypes, EmptyVec)]

\* Every row resized to one cell more than nTypes.
ResizeRowsOneMore(cs) ==
    [cs EXCEPT !.inheritanceMap = [r \in DOMAIN @ |-> Resize(@[r], cs.nTypes + 1, FALSE)],
               !.recursiveMap = [r \in DOMAIN @ |-> Resize(@[r], cs.nTypes + 1, FALSE)]]

\* the two for_each: every row resized to nTypes, new cells false
ResizeRows(cs) ==
    [cs EXCEPT !.inheritanceMap = [r \in DOMAIN @ |-> Resize(@[r], cs.nTypes, FALSE)],
               !.recursiveMap = [r \in DOMAIN @ |-> Resize(@[r], cs.nTypes, FALSE)]]

\* The direct edge alone, without setParentRecursively.
AddParentEdgeDirectOnly(cs, parent, type) ==
    IF ~InRange(cs.inheritanceMap, parent, type)
    THEN [cs EXCEPT !.fault = "oob"]
    ELSE [cs EXCEPT !.inheritanceMap = SetEntry(@, parent, type)]

\* inheritanceMap[parent][type] = true; setParentRecursively(parent, type)
AddParentEdge(cs, parent, type) ==
    IF ~InRange(cs.inheritanceMap, parent, type)
    THEN [cs EXCEPT !.fault = "oob"]
    ELSE LET r == setParentRecursively(cs.recursiveMap, cs.nTypes, parent, type, {})
         IN  [cs EXCEPT !.inheritanceMap = SetEntry(@, parent, type),
                        !.recursiveMap = r.map,
                        !.fault = IF r.overflow THEN "overflow" ELSE "none"]

\* The entries of a new type without inheritanceMap[type][type] = true.
SetEntriesNoSelfEdge(cs, parent, type) ==
    IF ~InRange(cs.inheritanceMap, parent, type)
    THEN [cs EXCEPT !.fault = "oob"]
    ELSE AddParentEdge([cs EXCEPT !.recursiveMap = SetEntry(@, type, type)],
                       parent, type)

\* inheritanceMap[type][type] = true; inheritanceMap[parent][type] = true;
\* recursiveMap[type][type] = true; setParentRecursively(parent, type)
SetEntries(cs, parent, type) ==
    LET c1 == [cs EXCEPT !.inheritanceMap = SetEntry(@, type, type)]
    IN  IF ~InRange(c1.inheritanceMap, parent, type)
        THEN [c1 EXCEPT !.fault = "oob"]
        ELSE AddParentEdge([c1 EXCEPT !.recursiveMap = SetEntry(@, type, type)],
                           parent, type)

\* The name bound to its code, the code left without a name.
BindNameOneWay(cs, name, type) ==
    [cs EXCEPT !.name2CodeMap = (name :> type) @@ @]

\* The name bound to the type count instead of the code.
BindNameToCount(cs, name, type) ==
    [cs EXCEPT !.name2CodeMap = (name :> cs.nTypes) @@ @,
               !.code2NameMap = (type :> name) @@ @]

\* name2CodeMap[name] = type; code2NameMap[type] = &key
BindName(cs, name, type) ==
    [cs EXCEPT !.name2CodeMap = (name :> type) @@ @,
               !.code2NameMap = (type :> name) @@ @]

\* The critical section of a first registration, as one value.
NewType(cs, parent, name) ==
    LET type == cs.nTypes
        c1 == SetEntries(ResizeRows(ResizeOuter(AllocCode(cs))), parent, type)
    IN  IF c1.fault # "none" THEN c1 ELSE BindName(c1, name, type)

\* ----------------------------------------------------------- initial
\* The members of a ClassServer whose constructor has set nTypes = 0, with
\* no caller inside it.
Constructed ==
    /\ nTypes = 0
    /\ inheritanceMap = EmptyVec
    /\ recursiveMap = EmptyVec
    /\ name2CodeMap = EmptyVec
    /\ code2NameMap = EmptyVec
    /\ fault = "none"
    /\ type_mutex = NoThread
    /\ pc = [t \in Threads |-> "idle"]
    /\ arg = [t \in Threads |-> [parent |-> NOTYPE, name |-> 1]]
    /\ typ = [t \in Threads |-> NOTYPE]
    /\ calls = 0
    /\ committed = << >>
    /\ delivered = << >>
    /\ ret = [op |-> "none", val |-> 0, pre |-> 0, post |-> 0, torn |-> FALSE]
    /\ snap = [nTypes |-> 0, inheritanceMap |-> EmptyVec,
               recursiveMap |-> EmptyVec, name2CodeMap |-> EmptyVec,
               code2NameMap |-> EmptyVec, fault |-> "none"]

\* The instance exists and every thread holds it.
Init ==
    /\ Constructed
    /\ instance = "ready"
    /\ created = 1
    /\ handle = [t \in Threads |-> 1]

threadVars == << type_mutex, pc, arg, typ, calls >>

registryVars == << nTypes, inheritanceMap, recursiveMap, name2CodeMap,
                  code2NameMap, fault >>

\* The names a caller registers: a registered name (a further parent), or
\* the next unused name (names are interchangeable, so new names are taken
\* in the order 1, 2, ...).
CallNames == {n \in Names : n \in DOMAIN name2CodeMap
                            \/ \A k \in 1 .. (n - 1) : k \in DOMAIN name2CodeMap}

\* The operation that returned last was addType(parent, name).
SameCall(parent, name) ==
    ret.op = "addType" /\ ret.parent = parent /\ ret.name = name

\* ------------------------------------------- Spec: one caller, whole calls
\* addType(parent, name), from its first line to its return.
AddType(parent, name) ==
    /\ fault = "none"
    /\ LET type == getType(Registry, name)
       IN  IF type # NOTYPE
           THEN LET cs == AddParentEdge(Registry, parent, type)
                IN  /\ SetRegistry(cs)
                    /\ snap' = cs
                    /\ UNCHANGED << committed, delivered >>
                    /\ IF cs.fault = "none"
                       THEN ret' = [op |-> "addType", parent |-> parent,
                                    name |-> name, val |-> type,
                                    again |-> SameCall(parent, name)]
                       ELSE UNCHANGED ret
           ELSE LET cs == NewType(Registry, parent, name)
                    new == nTypes
                IN  /\ SetRegistry(cs)
                    /\ snap' = cs
                    /\ IF cs.fault = "none"
                       THEN /\ committed' = Append(committed, [name |-> name, type |-> new])
                            /\ delivered' = Append(delivered, [by |-> NoThread, type |-> new])
                            /\ ret' = [op |-> "addType", parent |-> parent,
                                        name |-> name, val |-> new,
                                        again |-> FALSE]
                       ELSE UNCHANGED << committed, delivered, ret >>
    /\ UNCHANGED << threadVars, lifeVars >>

\* ------------------------------------------------------------ queries
\* A query that does not take type_mutex.
ReaderNoLock == TRUE

\* std::lock_guard<std::mutex> l(type_mutex) of a query: it proceeds when
\* the mutex is free, and releases it on return.
ReaderLock == type_mutex = NoThread

\* The registry the mutation in progress will have committed when it
\* releases type_mutex (the registry itself when none is in progress).
PostCommit ==
    IF type_mutex = NoThread THEN Registry
    ELSE LET t == type_mutex
         IN  IF pc[t] = "returnX"
             THEN AddParentEdge(snap, arg[t].parent, typ[t])
             ELSE NewType(snap, arg[t].parent, arg[t].name)

\* Both matrices are square with side nTypes.
Square(cs) ==
    /\ Size(cs.inheritanceMap) = cs.nTypes
    /\ Size(cs.recursiveMap) = cs.nTypes
    /\ \A r \in DOMAIN cs.inheritanceMap : Size(cs.inheritanceMap[r]) = cs.nTypes
    /\ \A r \in DOMAIN cs.recursiveMap : Size(cs.recursiveMap[r]) = cs.nTypes

\* A query returns val; pre and post are its values in the registry before
\* the mutation in progress and after it; torn: it read a matrix whose
\* dimensions are not nTypes.
Query(op, val, pre, post, torn) ==
    /\ fault = "none"
    /\ ret' = [op |-> op, val |-> val, pre |-> pre, post |-> post, torn |-> torn]
    /\ UNCHANGED << registryVars, threadVars, committed, delivered, snap, lifeVars >>

GetNumberOfClasses ==
    Query("getNumberOfClasses", getNumberOfClasses(Registry),
          getNumberOfClasses(snap), getNumberOfClasses(PostCommit), FALSE)

\* What inheritanceMap[parent][type] reads: the entry, or any value when
\* the index passed the bounds check and lies outside the matrix.
ReadDirect(type, parent) ==
    IF type < nTypes /\ parent < nTypes /\ ~InRange(inheritanceMap, parent, type)
    THEN BOOLEAN
    ELSE {isA_non_recursive(Registry, type, parent)}

IsANonRecursive(type, parent) ==
    /\ ReaderLock
    /\ \E v \in ReadDirect(type, parent) :
           Query("isA_non_recursive", v, isA_non_recursive(snap, type, parent),
                 isA_non_recursive(PostCommit, type, parent), ~Square(Registry))

IsDefined(name) ==
    /\ ReaderLock
    /\ Query("isDefined", isDefined(Registry, name), isDefined(snap, name),
             isDefined(PostCommit, name), FALSE)

GetType(name) ==
    /\ ReaderLock
    /\ Query("getType", getType(Registry, name), getType(snap, name),
             getType(PostCommit, name), FALSE)

GetTypeName(type) ==
    /\ ReaderLock
    /\ Query("getTypeName", getTypeName(Registry, type), getTypeName(snap, type),
             getTypeName(PostCommit, type), FALSE)

\* The codes a query is asked about: every counted code, the first code
\* that is not counted, and NOTYPE.
QueryCodes == (0 .. nTypes) \cup {NOTYPE}

Queries ==
    \/ GetNumberOfClasses
    \/ \E type \in QueryCodes, parent \in QueryCodes : IsANonRecursive(type, parent)
    \/ \E name \in Names : IsDefined(name)
    \/ \E name \in Names : GetType(name)
    \/ \E type \in QueryCodes : GetTypeName(type)

Next ==
    \/ \E parent \in ParentArgs, name \in CallNames : AddType(parent, name)
    \/ Queries

Spec == Init /\ [][Next]_vars

\* ------------------------------------- SpecConc: addType, step by step
Goto(t, label) == pc' = [pc EXCEPT ![t] = label]

NoCall == [parent |-> NOTYPE, name |-> 1]

\* A thread enters addType(parent, name):
\* Type type = getType(name); if (type != NOTYPE) ...
\* getType holds type_mutex from its first line to its return.  Idle
\* threads are interchangeable: the lowest-numbered one makes the call.
CheckName(t, parent, name) ==
    /\ fault = "none"
    /\ pc[t] = "idle"
    /\ \A u \in Threads : u < t => pc[u] # "idle"
    /\ calls < MaxCalls
    /\ type_mutex = NoThread
    /\ calls' = calls + 1
    /\ arg' = [arg EXCEPT ![t] = [parent |-> parent, name |-> name]]
    /\ typ' = [typ EXCEPT ![t] = getType(Registry, name)]
    /\ Goto(t, IF getType(Registry, name) # NOTYPE THEN "lockX" ELSE "lockN")
    /\ UNCHANGED << registryVars, type_mutex, committed, delivered, ret, snap,
                    lifeVars >>

\* The registered-name branch: std::lock_guard<std::mutex> l(type_mutex);
\* inheritanceMap[parent][type] = true; setParentRecursively(parent, type)
AddParent(t) ==
    /\ fault = "none"
    /\ pc[t] = "lockX"
    /\ type_mutex = NoThread
    /\ type_mutex' = t
    /\ SetRegistry(AddParentEdge(Registry, arg[t].parent, typ[t]))
    /\ Goto(t, "returnX")
    /\ UNCHANGED << arg, typ, calls, committed, delivered, ret, snap,
                    lifeVars >>

\* return type: the lock_guard releases type_mutex; no signal is emitted
ReturnExisting(t) ==
    /\ fault = "none"
    /\ pc[t] = "returnX"
    /\ type_mutex' = NoThread
    /\ snap' = Registry
    /\ arg' = [arg EXCEPT ![t] = NoCall]
    /\ typ' = [typ EXCEPT ![t] = NOTYPE]
    /\ Goto(t, "idle")
    /\ UNCHANGED << registryVars, calls, committed, delivered, ret,
                    lifeVars >>

\* The new-name branch: std::unique_lock<std::mutex> l(type_mutex);
\* type = nTypes++
LockNew(t) ==
    /\ fault = "none"
    /\ pc[t] = "lockN"
    /\ type_mutex = NoThread
    /\ type_mutex' = t
    /\ typ' = [typ EXCEPT ![t] = nTypes]
    /\ SetRegistry(AllocCode(Registry))
    /\ Goto(t, "resizeOuter")
    /\ UNCHANGED << arg, calls, committed, delivered, ret, snap,
                    lifeVars >>

\* One statement of the critical section: the registry becomes cs.
Statement(t, from, cs, to) ==
    /\ fault = "none"
    /\ pc[t] = from
    /\ SetRegistry(cs)
    /\ Goto(t, to)
    /\ UNCHANGED << type_mutex, arg, typ, calls, committed, delivered, ret, snap,
                    lifeVars >>

GrowOuter(t) == Statement(t, "resizeOuter", ResizeOuter(Registry), "resizeRows")

GrowRows(t) == Statement(t, "resizeRows", ResizeRows(Registry), "setEntries")

SetParents(t) ==
    Statement(t, "setEntries", SetEntries(Registry, arg[t].parent, typ[t]), "bind")

\* type_mutex kept across the signal.
StillLocked(t) == t

\* l.unlock(): the owner of type_mutex afterwards
Unlocked(t) == NoThread

\* addType returns right after l.unlock().
AfterUnlockReturn == "callback"

\* The statement after l.unlock(): _addTypeSignal(type)
AfterUnlock == "signal"

\* name2CodeMap[name] = type; code2NameMap[type] = ...; l.unlock()
Bind(t) ==
    /\ fault = "none"
    /\ pc[t] = "bind"
    /\ SetRegistry(BindName(Registry, arg[t].name, typ[t]))
    /\ type_mutex' = Unlocked(t)
    /\ snap' = BindName(Registry, arg[t].name, typ[t])
    /\ committed' = Append(committed, [name |-> arg[t].name, type |-> typ[t]])
    /\ Goto(t, AfterUnlock)
    /\ UNCHANGED << arg, typ, calls, delivered, ret,
                    lifeVars >>

\* The signal emitted with the parent instead of the new code.
SignalParent(t) == arg[t].parent

\* The argument of _addTypeSignal(type)
SignalArg(t) == typ[t]

\* _addTypeSignal(type): every subscriber is called, in the emitting thread
EmitSignal(t) ==
    /\ fault = "none"
    /\ pc[t] = "signal"
    /\ delivered' = Append(delivered, [by |-> t, type |-> SignalArg(t)])
    /\ Goto(t, "callback")
    /\ UNCHANGED << registryVars, type_mutex, arg, typ, calls, committed, ret, snap,
                    lifeVars >>

\* A subscriber, called with the code, queries the registry (getTypeName,
\* getType or isA_non_recursive: each takes type_mutex and releases it);
\* then the signal and addType return.
Callback(t) ==
    /\ fault = "none"
    /\ pc[t] = "callback"
    /\ type_mutex = NoThread
    /\ arg' = [arg EXCEPT ![t] = NoCall]
    /\ typ' = [typ EXCEPT ![t] = NOTYPE]
    /\ Goto(t, "idle")
    /\ UNCHANGED << registryVars, type_mutex, calls, committed, delivered, ret, snap,
                    lifeVars >>

ThreadStep(t) ==
    \/ \E parent \in ParentArgs, name \in CallNames : CheckName(t, parent, name)
    \/ AddParent(t)
    \/ ReturnExisting(t)
    \/ LockNew(t)
    \/ GrowOuter(t)
    \/ GrowRows(t)
    \/ SetParents(t)
    \/ Bind(t)
    \/ EmitSignal(t)
    \/ Callback(t)

NextConc ==
    \/ \E t \in Threads : ThreadStep(t)
    \/ Queries

SpecConc == Init /\ [][NextConc]_vars

\* --------------------------- SpecLife: classserver() and the constructor
\* Before the first call of classserver(): the static is not initialized
\* and no thread holds an instance.
InitLife ==
    /\ Constructed
    /\ instance = "none"
    /\ created = 0
    /\ handle = [t \in Threads |-> 0]

\* The static is initialized as soon as its initialization has begun.
InitializationBegun == instance # "none"

\* The guard of the function-local static: its initialization is complete.
\* A thread that calls classserver() while another thread initializes the
\* static waits for this.
Initialized == instance = "ready"

\* The first call of classserver(): static ... instance((*factory)())
\* begins; createInstance() runs new ClassServer(), whose constructor sets
\* nTypes = 0.  No thread holds an instance yet; the lowest-numbered one
\* makes the call.
BeginConstruct(t) ==
    /\ handle[t] = 0
    /\ pc[t] = "idle"
    /\ \A u \in Threads : u < t => handle[u] # 0
    /\ instance = "none"
    /\ instance' = "constructing"
    /\ created' = created + 1
    /\ Goto(t, "construct")
    /\ UNCHANGED << registryVars, type_mutex, arg, typ, calls, committed,
                    delivered, ret, snap, handle >>

\* The parents of the built-in types: a registered code, or the code the
\* new type is about to get (a root names itself).
BuiltinParents == 0 .. nTypes

\* One line of atom_types.inheritance inside the constructor: addType of
\* the next built-in type.
RegisterBuiltin(t, parent) ==
    /\ pc[t] = "construct"
    /\ nTypes < NumBuiltins
    /\ AddType(parent, nTypes + 1)

\* The constructor returns, the static is initialized, and classserver()
\* returns *instance to the thread that constructed it.
EndConstruct(t) ==
    /\ fault = "none"
    /\ pc[t] = "construct"
    /\ nTypes = NumBuiltins
    /\ instance' = "ready"
    /\ handle' = [handle EXCEPT ![t] = created]
    /\ Goto(t, "idle")
    /\ UNCHANGED << registryVars, type_mutex, arg, typ, calls, committed,
                    delivered, ret, snap, created >>

\* A call of classserver() with the static initialized: return *instance.
\* Idle threads without the instance are interchangeable: the
\* lowest-numbered one makes the call.
GetInstance(t) ==
    /\ handle[t] = 0
    /\ pc[t] = "idle"
    /\ \A u \in Threads : u < t => (handle[u] # 0 \/ pc[u] # "idle")
    /\ Initialized
    /\ handle' = [handle EXCEPT ![t] = created]
    /\ UNCHANGED << registryVars, threadVars, committed, delivered, ret, snap,
                    instance, created >>

\* A thread that holds the instance uses it as a module does while it
\* loads: it registers types and looks names up.
UseInstance ==
    /\ \E t \in Threads : handle[t] # 0
    /\ \/ \E parent \in ParentArgs, name \in CallNames : AddType(parent, name)
       \/ GetNumberOfClasses
       \/ \E name \in Names : IsDefined(name)
       \/ \E name \in Names : GetType(name)

NextLife ==
    \/ \E t \in Threads : BeginConstruct(t)
    \/ \E t \in Threads, parent \in BuiltinParents : RegisterBuiltin(t, parent)
    \/ \E t \in Threads : EndConstruct(t)
    \/ \E t \in Threads : GetInstance(t)
    \/ UseInstance

SpecLife == InitLife /\ [][NextLife]_vars

\* ------------------------------ SpecBind: the Scheme operations on types
\* The name "Notype", which ss_get_type accepts without a registration.
NotypeName == MaxNames + 1

\* The SCM values passed as a type: a string or a symbol spelling a name,
\* or a value that is neither.
ScmArgs ==
    [kind : {"string", "symbol"}, name : Names \cup {NotypeName}]
        \cup {[kind |-> "other", name |-> 0]}

\* scm_symbol_to_string when scm_symbol_p
SymbolToString(scm) ==
    IF scm.kind = "symbol" THEN [scm EXCEPT !.kind = "string"] ELSE scm

\* What an operation gives back: a value, or scm_wrong_type_arg_msg.
Value(v) == [err |-> FALSE, val |-> v]

WrongTypeArg == [err |-> TRUE, val |-> 0]

\* isA(type, parent): the ancestor entry, false for a code out of range.
isA(cs, type, parent) ==
    IF type >= cs.nTypes \/ parent >= cs.nTypes THEN FALSE
    ELSE cs.recursiveMap[parent][type]

RECURSIVE ChildrenFrom(_, _, _)
\* The codes c >= from with isA(c, type) and c # type, ascending.
ChildrenFrom(cs, type, from) ==
    IF from >= cs.nTypes THEN << >>
    ELSE IF isA(cs, from, type) /\ from # type
         THEN << from >> \o ChildrenFrom(cs, type, from + 1)
         ELSE ChildrenFrom(cs, type, from + 1)

\* getChildren(type, out)
getChildren(cs, type) == ChildrenFrom(cs, type, 0)

\* verify_atom_type: the code of a string or symbol that names a type, a
\* type error for anything else.
verify_atom_type(cs, stype) ==
    LET str == SymbolToString(stype)
    IN  IF str.kind # "string" \/ getType(cs, str.name) = NOTYPE
        THEN WrongTypeArg
        ELSE Value(getType(cs, str.name))

\* ss_get_type (cog-type->int)
ss_get_type(cs, stype) ==
    LET str == SymbolToString(stype)
    IN  IF str.kind # "string" THEN WrongTypeArg
        ELSE LET t == getType(cs, str.name)
             IN  IF t = NOTYPE /\ str.name # NotypeName THEN WrongTypeArg
                 ELSE Value(t)

\* ss_subtype_p (cog-subtype?)
ss_subtype_p(cs, stype, schild) ==
    LET strP == SymbolToString(stype)
        strC == SymbolToString(schild)
    IN  IF strP.kind # "string" THEN Value(FALSE)
        ELSE IF getType(cs, strP.name) = NOTYPE THEN Value(FALSE)
        ELSE IF strC.kind # "string" THEN Value(FALSE)
        ELSE IF getType(cs, strC.name) = NOTYPE THEN Value(FALSE)
        ELSE Value(isA(cs, getType(cs, strC.name), getType(cs, strP.name)))

RECURSIVE ConsNames(_, _, _)
\* The for loop of ss_get_subtypes from index i on: each name is consed
\* onto the front of list.
ConsNames(cs, subl, list) ==
    IF subl = << >> THEN list
    ELSE ConsNames(cs, Tail(subl), << getTypeName(cs, Head(subl)) >> \o list)

\* ss_get_subtypes (cog-get-subtypes)
ss_get_subtypes(cs, stype) ==
    LET t == verify_atom_type(cs, stype)
    IN  IF t.err THEN WrongTypeArg
        ELSE Value(ConsNames(cs, getChildren(cs, t.val), << >>))

\* The argument is a string or a symbol that names a registered type.
NamesType(cs, scm) == scm.kind \in {"string", "symbol"} /\ isDefined(cs, scm.name)

\* A Scheme operation returns r; valid: every type argument names a
\* registered type; answer: what the registry gives for the named types.
SchemeCall(op, r, valid, answer) ==
    /\ fault = "none"
    /\ ret' = [op |-> op, err |-> r.err, val |-> r.val, valid |-> valid,
               answer |-> IF valid THEN answer ELSE 0]
    /\ UNCHANGED << registryVars, threadVars, committed, delivered, snap, lifeVars >>

SsGetType(stype) ==
    SchemeCall("ss_get_type", ss_get_type(Registry, stype),
               NamesType(Registry, stype), getType(Registry, stype.name))

SsSubtypeP(stype, schild) ==
    SchemeCall("ss_subtype_p", ss_subtype_p(Registry, stype, schild),
               NamesType(Registry, stype) /\ NamesType(Registry, schild),
               isA(Registry, getType(Registry, schild.name),
                   getType(Registry, stype.name)))

SsGetSubtypes(stype) ==
    SchemeCall("ss_get_subtypes", ss_get_subtypes(Registry, stype),
               NamesType(Registry, stype),
               ConsNames(Registry, getChildren(Registry, getType(Registry, stype.name)),
                         << >>))

\* The thread that evaluates (cog-get-types).
Lister == 1

\* The while (1) loop of ss_get_types with t = n on entry: t-- (an unsigned
\* short, so 0 becomes 65535), getTypeName(t) consed onto the front of
\* list, until t is 0.  The loop visits the codes first, first - 1, ..., 0
\* with first = (n - 1) mod 2^16, and the list ends with the name of code
\* k - 1 at place k.
ss_get_types(cs, n) ==
    LET first == (n - 1) % TypeModulus
    IN  [k \in 1 .. (first + 1) |-> getTypeName(cs, k - 1)]

\* ss_get_types: Type t = nameserver().getNumberOfClasses()
SsGetTypesCount ==
    /\ fault = "none"
    /\ pc[Lister] = "idle"
    /\ typ' = [typ EXCEPT ![Lister] = getNumberOfClasses(Registry)]
    /\ Goto(Lister, "names")
    /\ UNCHANGED << registryVars, type_mutex, arg, calls, committed, delivered,
                    ret, snap, lifeVars >>

\* ss_get_types: the loop and return list.  count is the t the loop began
\* with; answer holds the names of the codes 0 .. count - 1.
SsGetTypesNames ==
    /\ fault = "none"
    /\ pc[Lister] = "names"
    /\ ret' = [op |-> "ss_get_types", err |-> FALSE,
               val |-> ss_get_types(Registry, typ[Lister]),
               count |-> typ[Lister],
               answer |-> [k \in 1 .. typ[Lister] |-> getTypeName(Registry, k - 1)]]
    /\ typ' = [typ EXCEPT ![Lister] = NOTYPE]
    /\ Goto(Lister, "idle")
    /\ UNCHANGED << registryVars, type_mutex, arg, calls, committed, delivered,
                    snap, lifeVars >>

NextBind ==
    \/ \E parent \in ParentArgs, name \in CallNames : AddType(parent, name)
    \/ SsGetTypesCount
    \/ SsGetTypesNames
    \/ \E stype \in ScmArgs, schild \in ScmArgs : SsSubtypeP(stype, schild)
    \/ \E stype \in ScmArgs : SsGetType(stype)
    \/ \E stype \in ScmArgs : SsGetSubtypes(stype)

SpecBind == Init /\ [][NextBind]_vars

\* ===================================================== the claims
Codes == 0 .. (nTypes - 1)

\* The direct edge child -> parent: inheritanceMap[parent][child].
DirectParents(S) ==
    S \cup {p \in Codes : \E c \in S : InRange(inheritanceMap, p, c)
                                        /\ inheritanceMap[p][c]}

RECURSIVE UpClosure(_)
\* Every code reached from S along direct edges, S included.
UpClosure(S) == IF DirectParents(S) = S THEN S ELSE UpClosure(DirectParents(S))

HasPath(child, parent) == parent \in UpClosure({child})

\* No two distinct codes reach each other.
Acyclic ==
    \A a \in Codes, b \in Codes : (a # b /\ HasPath(a, b)) => ~HasPath(b, a)

\* C1: after any sequence of addType calls whose direct edges form a DAG,
\* the ancestor entry recursiveMap[parent][child] (isA(child, parent)) is
\* true exactly when child = parent or direct edges lead from child up to
\* parent.
C1_ClosureIsReflexiveTransitive ==
    (fault = "none" /\ Acyclic) =>
        \A child \in Codes, parent \in Codes :
            recursiveMap[parent][child] <=> HasPath(child, parent)

\* A thread's addType call has left its critical section and returns typ[t].
Returning(t) == pc[t] \in {"signal", "callback"}

\* C2: under any interleaving of addType calls a type is created once per
\* name: calls with the same name return the same code, the type count is
\* the number of names, and getType(getTypeName(code)) = code for every
\* assigned code.
C2_OneTypePerName ==
    fault = "none" =>
        /\ \A t1 \in Threads, t2 \in Threads :
               (Returning(t1) /\ Returning(t2) /\ arg[t1].name = arg[t2].name)
                   => typ[t1] = typ[t2]
        /\ type_mutex = NoThread => nTypes = Cardinality(DOMAIN name2CodeMap)
        /\ \A code \in DOMAIN code2NameMap :
               getType(Registry, getTypeName(Registry, code)) = code

\* C3: whenever a subscriber is called with code t (the emitting thread is
\* at the signal or inside the callback), that thread does not hold
\* type_mutex, t is counted, its row and column exist in both matrices, its
\* ancestor entries (itself and the parent) and its direct edge are set,
\* and its name is bound in both maps.
C3_SignalAfterCommitOutsideLock ==
    \A t \in Threads :
        pc[t] \in {"signal", "callback"} =>
            /\ type_mutex # t
            /\ typ[t] < nTypes
            /\ InRange(inheritanceMap, typ[t], typ[t])
            /\ InRange(recursiveMap, typ[t], typ[t])
            /\ InRange(inheritanceMap, arg[t].parent, typ[t])
            /\ InRange(recursiveMap, arg[t].parent, typ[t])
            /\ recursiveMap[typ[t]][typ[t]]
            /\ recursiveMap[arg[t].parent][typ[t]]
            /\ inheritanceMap[arg[t].parent][typ[t]]
            /\ typ[t] \in DOMAIN code2NameMap
            /\ code2NameMap[typ[t]] = arg[t].name
            /\ arg[t].name \in DOMAIN name2CodeMap

\* A subscriber is being called while another thread is inside its
\* critical section.
C3_Witness ==
    \E t \in Threads :
        /\ pc[t] = "callback"
        /\ type_mutex \notin {t, NoThread}
        /\ ~Square(Registry)

ReadOps == {"getNumberOfClasses", "isA_non_recursive", "isDefined", "getType",
            "getTypeName"}

\* C4: a query that runs while an addType is in progress returns the value
\* it has in the registry before that addType or the value it has after
\* that addType committed, and it reads no matrix whose dimensions differ
\* from nTypes.
C4_ReadsSeeCommittedState ==
    ret.op \in ReadOps => (~ret.torn /\ (ret.val = ret.pre \/ ret.val = ret.post))

\* getNumberOfClasses returned the count of the addType in progress, which
\* has not resized the matrices yet.
C4_Witness ==
    /\ ret.op = "getNumberOfClasses"
    /\ ret.val = ret.post
    /\ ret.pre # ret.post
    /\ type_mutex # NoThread
    /\ ~Square(Registry)

\* The step is an addType call that returned; ret' holds its arguments and
\* its result.
ReturnedFrom ==
    /\ ret'.op = "addType"
    /\ fault' = "none"
    /\ AddType(ret'.parent, ret'.name)

\* C5: addType of a registered name with a further parent returns the
\* name's code and allocates none; the type is then a descendant of the new
\* parent and of every parent it was registered under before, and no entry
\* isA(x, t) changes.
C5_MultipleInheritance ==
    [][(ReturnedFrom /\ ret'.name \in DOMAIN name2CodeMap) =>
          LET t == name2CodeMap[ret'.name]
              parentB == ret'.parent
          IN  /\ ret'.val = t
              /\ nTypes' = nTypes
              /\ name2CodeMap' = name2CodeMap
              /\ code2NameMap' = code2NameMap
              /\ recursiveMap'[parentB][t]
              /\ \A parentA \in Codes :
                     inheritanceMap[parentA][t] => recursiveMap'[parentA][t]
              /\ \A x \in Codes : recursiveMap'[t][x] = recursiveMap[t][x]]_vars

\* The last call gave a type a second parent other than itself.
C5_Witness ==
    /\ fault = "none"
    /\ ret.op = "addType"
    /\ \E a \in Codes, b \in Codes :
           /\ a # b /\ a # ret.val /\ b # ret.val
           /\ ret.parent = b
           /\ inheritanceMap[a][ret.val]
           /\ inheritanceMap[b][ret.val]

\* C6: addType(parent, name) called again right after addType(parent, name)
\* returned gives the same code and leaves the count, the name maps and
\* both matrices as they were.
C6_Idempotent ==
    [][(ret.op = "addType" /\ AddType(ret.parent, ret.name)) =>
          /\ ret'.op = "addType" /\ ret'.val = ret.val
          /\ UNCHANGED registryVars]_vars

\* The last call repeated the call before it.
C6_Witness == ret.op = "addType" /\ ret.again /\ nTypes >= 2

\* C7: getNumberOfClasses never decreases; addType of a new name adds one,
\* addType of a registered name and every query leave it unchanged.
C7_CountMonotone ==
    [][/\ getNumberOfClasses(Registry)' >= getNumberOfClasses(Registry)
       /\ ReturnedFrom =>
              nTypes' = IF ret'.name \in DOMAIN name2CodeMap THEN nTypes
                        ELSE nTypes + 1
       /\ fault' # fault =>
              \A parent \in ParentArgs, name \in Names :
                  AddType(parent, name) =>
                      nTypes' = IF name \in DOMAIN name2CodeMap THEN nTypes
                                ELSE nTypes + 1
       /\ nTypes' # nTypes =>
              /\ nTypes' = nTypes + 1
              /\ ~Queries
              /\ fault' = "none" =>
                     (ret'.op = "addType" /\ ret'.name \notin DOMAIN name2CodeMap)]_vars

\* A registered name was registered again with two types counted.
C7_Witness == ret.op = "addType" /\ ret.val = 0 /\ nTypes >= 2

\* C8: the name table is a bijection: getTypeName(getType(name)) = name for
\* every registered name and getType(getTypeName(code)) = code for every
\* code below getNumberOfClasses.
C8_NameTableBijection ==
    fault = "none" =>
        /\ \A name \in DOMAIN name2CodeMap :
               getTypeName(Registry, getType(Registry, name)) = name
        /\ \A code \in Codes :
               getType(Registry, getTypeName(Registry, code)) = code

\* Two names are registered and one of them has been registered twice.
C8_Witness ==
    /\ fault = "none"
    /\ nTypes >= 2
    /\ ret.op = "addType" /\ ret.val < nTypes - 1

\* C9: the k-th new name has code k-1, getType keeps returning it, and no
\* step changes the code of a registered name.
C9_CodesSequentialAndStable ==
    /\ [](\A k \in 1 .. Len(committed) :
             /\ committed[k].type = k - 1
             /\ getType(Registry, committed[k].name) = k - 1)
    /\ [][\A name \in DOMAIN name2CodeMap :
             getType(Registry, name)' = getType(Registry, name)]_vars

\* Three names hold the codes 0, 1, 2 and an earlier one was registered
\* again afterwards.
C9_Witness ==
    /\ Len(committed) >= 3
    /\ ret.op = "addType" /\ ret.val = 0

\* The place of a code in the commit order.
CommitPos(code) == CHOOSE k \in 1 .. Len(committed) : committed[k].type = code

IsCommitted(code) == \E k \in 1 .. Len(committed) : committed[k].type = code

NotYetEmitted == {t \in Threads : pc[t] \notin {"idle", "callback"}}

\* C11: every addType call, of a new name or of a registered one, emits one
\* type-added notification: the notifications emitted are as many as the
\* calls that have emitted or returned.
C11_EveryCallNotifies ==
    Len(delivered) = calls - Cardinality(NotYetEmitted)

\* C11 amended: every addType call that allocates a new code emits, after
\* its commit, one notification carrying the code it returns; a call that
\* adds a parent to a registered name emits none.
C11_NewTypeCallsNotify ==
    /\ [](Len(delivered) = Len(committed) - Cardinality({t \in Threads : pc[t] = "signal"}))
    /\ [][\A t \in Threads :
             /\ (pc[t] = "signal" /\ pc'[t] # "signal") =>
                    /\ IsCommitted(typ[t])
                    /\ delivered' = Append(delivered, [by |-> t, type |-> typ[t]])
             /\ (pc[t] \in {"lockX", "returnX"} /\ pc'[t] # pc[t]) =>
                    delivered' = delivered]_vars

\* A call of a new name and a call of a registered name have both returned
\* and one notification was emitted.
C11_Witness ==
    /\ fault = "none"
    /\ calls = 2
    /\ \A t \in Threads : pc[t] = "idle"
    /\ Len(committed) = 1
    /\ Len(delivered) = 1

\* C12: on unknown inputs the queries return their sentinels: getType of an
\* unregistered name NOTYPE, getTypeName of a code never registered the
\* unknown-type string, isDefined of an unregistered name false,
\* isA_non_recursive false when an argument is not below the type count
\* (a query step that returns another value is not a query of an unknown
\* input); and no query fails or changes the registry.
C12_QueriesTotal ==
    [][/\ (ret'.op = "getType" /\ ret'.val # NOTYPE) =>
              \A name \in Names : ~isDefined(Registry, name) => ~GetType(name)
       /\ (ret'.op = "isDefined" /\ ret'.val # FALSE) =>
              \A name \in Names :
                  name \notin DOMAIN name2CodeMap => ~IsDefined(name)
       /\ (ret'.op = "getTypeName" /\ ret'.val # nullString) =>
              \A type \in QueryCodes : ~IsCommitted(type) => ~GetTypeName(type)
       /\ (ret'.op = "isA_non_recursive" /\ ret'.val # FALSE) =>
              \A type \in QueryCodes, parent \in QueryCodes :
                  (type >= getNumberOfClasses(Registry)
                       \/ parent >= getNumberOfClasses(Registry))
                      => ~IsANonRecursive(type, parent)
       /\ registryVars' # registryVars => ~Queries]_vars

\* getTypeName was asked for a code that is not registered, with two types
\* registered.
C12_Witness ==
    /\ ret.op = "getTypeName"
    /\ ret.val = nullString
    /\ nTypes >= 2

\* C13: addType never indexes the direct-parent matrix or the ancestor
\* matrix outside its bounds, whatever the parent argument is and whether
\* the name is new or registered.
C13_NoOutOfBoundsIndex == fault # "oob"

\* C14: whenever no addType holds type_mutex, both matrices are square with
\* side nTypes, every registered type has its row and column in both, and
\* the ancestor entry [t][t] is set for every registered t.
C14_SquareAndReflexive ==
    type_mutex = NoThread =>
        /\ Square(Registry)
        /\ \A t \in DOMAIN code2NameMap :
               /\ t < nTypes
               /\ InRange(inheritanceMap, t, t)
               /\ InRange(recursiveMap, t, t)
        /\ \A t \in Codes : recursiveMap[t][t]

\* Two calls have committed a type each and neither has returned.
C14_Witness ==
    /\ type_mutex = NoThread
    /\ nTypes >= 2
    /\ \E t \in Threads, u \in Threads :
           t # u /\ pc[t] = "signal" /\ pc[u] \in {"signal", "callback"}

\* C15: classserver() constructs one instance, on its first call; a thread
\* holds an instance only once the constructor has finished and has
\* registered every built-in type, and all threads hold the same one.
C15_OneInstanceFullyConstructed ==
    /\ created <= 1
    /\ (instance = "none") = (created = 0)
    /\ \A t \in Threads :
           handle[t] # 0 =>
               /\ instance = "ready"
               /\ \A u \in Threads : pc[u] # "construct"
               /\ getNumberOfClasses(Registry) >= NumBuiltins
               /\ \A name \in 1 .. NumBuiltins : isDefined(Registry, name)
               /\ \A u \in Threads : handle[u] # 0 => handle[u] = handle[t]

\* Every thread holds the instance: one constructed it, the others called
\* classserver() later.
C15_Witness ==
    /\ \A t \in Threads : handle[t] = 1
    /\ nTypes = NumBuiltins
    /\ ret.op = "addType"

SchemeOps == {"ss_get_type", "ss_subtype_p", "ss_get_subtypes"}

\* C16: a Scheme operation given a type argument that is not a string or
\* symbol naming a registered type raises a type error; given valid
\* arguments it returns the registry's answer (the getType code,
\* isA(child, parent), the names of getChildren); and it leaves the registry
\* as it was.
C16_BindingRejectsNonTypes ==
    ret.op \in SchemeOps =>
        IF ret.valid THEN ~ret.err /\ ret.val = ret.answer
        ELSE ret.err

\* isA_non_recursive(child, parent) held before the step.
WasDirect(child, parent) ==
    child \in Codes /\ parent \in Codes /\ isA_non_recursive(Registry, child, parent)

\* C17: isA_non_recursive(child, parent) is true exactly for the declared
\* edges: the registry starts with none, and an addType call that returns
\* code c for parent argument p adds the pair (c, p) and no other; (t, t)
\* is true only if t was registered with itself as parent.
C17_DirectIsDeclaredEdges ==
    [][ReturnedFrom =>
          \A child \in Codes', parent \in Codes' :
              isA_non_recursive(Registry, child, parent)' <=>
                  \/ WasDirect(child, parent)
                  \/ (child = ret'.val /\ parent = ret'.parent)]_vars

\* C17 amended: isA_non_recursive(child, parent) is true exactly when
\* child = parent or some addType call registered child's name with that
\* parent: an addType call that returns code c for parent argument p adds
\* the pair (c, p), and (c, c) when c is new, and no other.
C17_DirectIsDeclaredEdgesAndSelf ==
    /\ [](fault = "none" => \A t \in Codes : isA_non_recursive(Registry, t, t))
    /\ [][ReturnedFrom =>
             \A child \in Codes', parent \in Codes' :
                 isA_non_recursive(Registry, child, parent)' <=>
                     \/ WasDirect(child, parent)
                     \/ (child = ret'.val /\ parent = ret'.parent)
                     \/ (child = parent /\ child = ret'.val
                            /\ ret'.name \notin DOMAIN name2CodeMap)]_vars
    /\ [][(inheritanceMap' # inheritanceMap /\ fault' = "none")
              => ret'.op = "addType"]_vars

\* The last call registered type 1 under type 0: its own entry is set, the
\* reverse edge is not.
C17_Witness ==
    /\ fault = "none"
    /\ ret.op = "addType" /\ ret.val = 1 /\ ret.parent = 0
    /\ isA_non_recursive(Registry, 1, 1)
    /\ isA_non_recursive(Registry, 1, 0)
    /\ ~isA_non_recursive(Registry, 0, 1)

\* C18: setParentRecursively ends, and addType returns, whenever the new
\* edge leaves the direct-parent graph acyclic (a type that is its own
\* parent counts as acyclic); the recursion is unbounded only when the edge
\* closes a cycle.
C18_RecursionEndsUnlessCycle ==
    fault = "overflow" => ~Acyclic

\* The last call registered type 2 at the end of a chain: the recursion
\* went from its parent to the parent's ancestor and returned.
C18_Witness ==
    /\ fault = "none"
    /\ Acyclic
    /\ ret.op = "addType" /\ ret.val = 2 /\ ret.parent = 1
    /\ ~inheritanceMap[0][2]
    /\ recursiveMap[0][2]

\* The ancestor entry [a][d] was set before the step.
WasAncestor(a, d) == a \in Codes /\ d \in Codes /\ recursiveMap[a][d]

\* C19: an addType call that returns code t for parent p, and with it
\* setParentRecursively(p, t), leaves every ancestor entry [x][d] with
\* d # t as it was (the entries of the descendants of t among them) and
\* sets entries [a][t] only for a = p, a = t when t is new, or a an ancestor
\* of p; for a registered name the direct matrix changes at [p][t] alone
\* and the count and the name maps do not change.
C19_ClosureWritesOneColumn ==
    [][ReturnedFrom =>
          LET t == ret'.val
              p == ret'.parent
          IN  /\ \A x \in Codes, d \in Codes :
                     d # t => recursiveMap'[x][d] = recursiveMap[x][d]
              /\ \A a \in Codes' :
                     (recursiveMap'[a][t] /\ ~WasAncestor(a, t)) =>
                         \/ a = p
                         \/ a = t /\ t \notin Codes
                         \/ HasPath(p, a)
              /\ t \in Codes =>
                     /\ nTypes' = nTypes
                     /\ name2CodeMap' = name2CodeMap
                     /\ code2NameMap' = code2NameMap
                     /\ \A x \in Codes, d \in Codes :
                            (x # p \/ d # t) => inheritanceMap'[x][d] = inheritanceMap[x][d]]_vars

\* The last call gave type 1, which has the descendant 2, the parent 0: the
\* entry [0][1] is set and [0][2] is as it was.
C19_Witness ==
    /\ fault = "none"
    /\ ret.op = "addType" /\ ret.val = 1 /\ ret.parent = 0
    /\ nTypes = 3
    /\ recursiveMap[1][2]
    /\ recursiveMap[0][1]
    /\ ~recursiveMap[0][2]

\* C20: the registry is append-only: no step clears an ancestor entry or a
\* direct entry, removes a name, or changes the code a name or the name a
\* code is bound to.
C20_AppendOnly ==
    [][\/ UNCHANGED registryVars
       \/ /\ \A c \in Codes, p \in Codes :
                 /\ recursiveMap[p][c] =>
                        (InRange(recursiveMap', p, c) /\ recursiveMap'[p][c])
                 /\ isA_non_recursive(Registry, c, p)
                        => isA_non_recursive(Registry, c, p)'
          /\ \A name \in Names :
                 isDefined(Registry, name) =>
                     /\ isDefined(Registry, name)'
                     /\ getType(Registry, name)' = getType(Registry, name)
          /\ \A code \in DOMAIN code2NameMap :
                 getTypeName(Registry, code)' = getTypeName(Registry, code)]_vars

\* Three types are registered, the first is an ancestor of the other two,
\* and the last call added a parent to a registered name.
C20_Witness ==
    /\ fault = "none"
    /\ nTypes = 3
    /\ recursiveMap[0][1] /\ recursiveMap[0][2]
    /\ ret.op = "addType" /\ ret.val < 2 /\ ret.parent # ret.val

=============================================================================
